---- MODULE Spec2Model ----
(***************************************************************************)
(* control.matlab: the MATLAB-compatibility entry points margin, dcgain,   *)
(* damp and c2d of python-control (src/control/matlab/__init__.py).        *)
(*                                                                         *)
(* Each entry point is a synchronous function of its arguments.  The state *)
(* is one call (op, args), where it stands (pc: "call" before the entry    *)
(* point runs, "done" after), its outcome (ret: the exception raised, or   *)
(* "None", and the value returned), the library calls it made with what    *)
(* they returned (calls), and the lines it printed (stdout).               *)
(*                                                                         *)
(* Floating-point numbers are modelled as exact rationals <<n, d>> in      *)
(* lowest terms with d > 0; <<1, 0>> is +inf.                              *)
(***************************************************************************)
EXTENDS Integers, Sequences, FiniteSets

VARIABLES pc, op, args, ret, calls, stdout

vars == <<pc, op, args, ret, calls, stdout>>

(***************************************************************************)
(* Rational arithmetic                                                     *)
(***************************************************************************)
Abs(x) == IF x < 0 THEN -x ELSE x

Sign(x) == IF x < 0 THEN -1 ELSE IF x > 0 THEN 1 ELSE 0

RECURSIVE Gcd(_, _)
Gcd(a, b) == IF b = 0 THEN a ELSE Gcd(b, a % b)

Rat(n, d) ==
    IF d = 0 THEN <<Sign(n), 0>>
    ELSE LET g == Gcd(Abs(n), Abs(d))
         IN  <<(Sign(d) * n) \div g, Abs(d) \div g>>

R(n) == <<n, 1>>

Inf == <<1, 0>>

RAdd(a, b) == Rat(a[1] * b[2] + b[1] * a[2], a[2] * b[2])

RSub(a, b) == Rat(a[1] * b[2] - b[1] * a[2], a[2] * b[2])

RMul(a, b) == Rat(a[1] * b[1], a[2] * b[2])

RDiv(a, b) == Rat(a[1] * b[2], a[2] * b[1])

RNeg(a) == <<-a[1], a[2]>>

RLt(a, b) == a[1] * b[2] < b[1] * a[2]

RLe(a, b) == a[1] * b[2] <= b[1] * a[2]

\* The sequence f[1], ..., f[n], evaluated once.
RECURSIVE Tup(_, _)
Tup(f, n) == IF n = 0 THEN <<>> ELSE Append(Tup(f, n - 1), f[n])

\* The value returned by a call that raised: Python returns nothing.
NoValue == <<>>

\* The message of an exception is the tuple of its format and arguments.
NoMsg == <<>>

Raise(e, m, cs) == [exc |-> e, msg |-> m, val |-> NoValue, calls |-> cs, out |-> <<>>]

Return(v, cs) == [exc |-> "None", msg |-> NoMsg, val |-> v, calls |-> cs, out |-> <<>>]

\* A caller about to call entry point name with one of the argument tuples.
Calling(name, argsets) ==
    /\ pc = "call"
    /\ op = name
    /\ args \in argsets
    /\ ret = [exc |-> "None", msg |-> NoMsg, val |-> NoValue]
    /\ calls = <<>>
    /\ stdout = <<>>

(***************************************************************************)
(* Frequency-response inputs of margin                                     *)
(***************************************************************************)
\* Longest magnitude / phase / frequency array the caller passes.
MaxLen == 3

\* Magnitudes (absolute units), phases (degrees) the arrays are built from.
MagValues == {<<1, 5>>, <<4, 5>>, <<2, 1>>}

PhaseValues == {-225, -135, 135}

RECURSIVE Pow2(_)
Pow2(k) == IF k = 0 THEN 1 ELSE 2 * Pow2(k - 1)

\* Frequency grids: strictly increasing, linearly or logarithmically spaced.
Grids(n) == {[i \in 1..n |-> i], [i \in 1..n |-> Pow2(i - 1)]}

MagSeqs == UNION {[1..n -> MagValues] : n \in 1..MaxLen}

PhaseSeqs == UNION {[1..n -> PhaseValues] : n \in 1..MaxLen}

WSeqs == UNION {Grids(n) : n \in 1..MaxLen}

\* A Python tuple handed on as one argument (margin passes args itself).
Tuple(items) == [type |-> "tuple", items |-> items]

\* The frequency response of an LTI object on the grid the library builds
\* for it; the object is characterised by that response.
freqresp(sys) == sys.resp

(***************************************************************************)
(* stability_margins (control.margins)                                     *)
(***************************************************************************)
WrapDeg(dd) ==
    LET m == ((dd + 180) % 360) - 180
    IN  IF m = -180 /\ dd > 0 THEN 180 ELSE m

RECURSIVE UnwrapAt(_, _)
UnwrapAt(ph, i) ==
    IF i = 1 THEN ph[1]
    ELSE UnwrapAt(ph, i - 1) + WrapDeg(ph[i] - ph[i - 1])

unwrap(ph) == Tup([i \in 1..Len(ph) |-> UnwrapAt(ph, i)], Len(ph))

Min2(a, b) == IF a < b THEN a ELSE b

Max2(a, b) == IF a < b THEN b ELSE a

\* The levels -180 + 360k strictly between two consecutive phase samples:
\* the first level above the lower sample, and those 360 apart from it.
LevelsBetween(a, b) ==
    LET lo == Min2(a, b)
        hi == Max2(a, b)
        first == lo + 1 + ((-181 - lo) % 360)
    IN  {x \in {first + 360 * k : k \in 0..((hi - lo) \div 360)} : x < hi}

\* Linear interpolation of y at fraction t of the way from sample i to i+1.
Interp(y, i, t) == RAdd(y[i], RMul(t, RSub(y[i + 1], y[i])))

RatSeq(xs) == Tup([i \in 1..Len(xs) |-> R(xs[i])], Len(xs))

\* One candidate per detected -180 degree crossing: gain margin 1/|H| at the
\* interpolated crossing, and the interpolated frequency.
PhaseCrossings(mag, phase, w) ==
    LET ph == unwrap(phase)
        wr == RatSeq(w)
        T(i, L) == RDiv(R(L - ph[i]), R(ph[i + 1] - ph[i]))
    IN  UNION {{[margin |-> RDiv(R(1), Interp(mag, i, T(i, L))),
                 w |-> Interp(wr, i, T(i, L)),
                 at |-> i] : L \in LevelsBetween(ph[i], ph[i + 1])} :
               i \in 1..(Len(ph) - 1)}

\* One candidate per detected unity-gain crossing: phase margin 180 + phase
\* at the interpolated crossing, and the interpolated frequency.
GainCrossings(mag, phase, w) ==
    LET ph == RatSeq(unwrap(phase))
        wr == RatSeq(w)
        T(i) == RDiv(RSub(R(1), mag[i]), RSub(mag[i + 1], mag[i]))
    IN  {[margin |-> RAdd(R(180), Interp(ph, i, T(i))),
          w |-> Interp(wr, i, T(i)),
          at |-> i] :
            i \in {j \in 1..(Len(mag) - 1) :
                     \/ RLt(mag[j], R(1)) /\ RLt(R(1), mag[j + 1])
                     \/ RLt(mag[j + 1], R(1)) /\ RLt(R(1), mag[j])}}

NaN == <<0, 0>>

\* Worst case: the lowest margin; between equal margins the lowest frequency.
Worst(cands) ==
    IF cands = {} THEN [margin |-> Inf, w |-> NaN, at |-> 0]
    ELSE CHOOSE c \in cands :
            \A d \in cands :
                \/ RLt(c.margin, d.margin)
                \/ c.margin = d.margin /\ RLe(c.w, d.w)

\* The two entries of the result this model does not compute (the stability
\* margin sm and its frequency ws): any of these pairs.
Und == {<<<<1, 2>>, <<3, 2>>>>, <<<<3, 4>>, <<5, 2>>>>}

\* Returns (gm, pm, sm, wg, wp, ws): wg is the frequency of the gain margin
\* (a phase crossover), wp the frequency of the phase margin (a gain
\* crossover).
stability_margins(sysdata, und) ==
    LET isTuple == sysdata.type = "tuple"
        okShape == IF isTuple
                   THEN /\ Len(sysdata.items) = 3
                        /\ Len(sysdata.items[1]) = Len(sysdata.items[2])
                        /\ Len(sysdata.items[2]) = Len(sysdata.items[3])
                   ELSE TRUE
        resp    == IF isTuple THEN sysdata.items ELSE freqresp(sysdata)
        g       == Worst(PhaseCrossings(resp[1], resp[2], resp[3]))
        p       == Worst(GainCrossings(resp[1], resp[2], resp[3]))
    IN  IF ~okShape THEN [exc |-> "InvalidArgumentError", msg |-> NoMsg, val |-> NoValue]
        ELSE [exc |-> "None", msg |-> NoMsg,
              val |-> <<g.margin, p.margin, und[1], g.w, p.w, und[2]>>]

(***************************************************************************)
(* margin                                                                  *)
(***************************************************************************)
Called(f, r) == [fn |-> f, ret |-> r]

\* margin with the else branch handing args on instead of raising.
margin_anycount(a, und) ==
    LET m == stability_margins(IF Len(a) = 1 THEN a[1] ELSE Tuple(a), und)
        cs == <<Called("stability_margins", m)>>
    IN  IF m.exc # "None" THEN Raise(m.exc, m.msg, cs)
        ELSE Return(<<m.val[1], m.val[2], m.val[5], m.val[4]>>, cs)

\* margin falling back to "no crossover" when the computation raises.
margin_fallback(a, und) ==
    IF Len(a) \in {1, 3}
    THEN LET m == stability_margins(IF Len(a) = 1 THEN a[1] ELSE Tuple(a), und)
             cs == <<Called("stability_margins", m)>>
         IN  IF m.exc # "None" THEN Return(<<Inf, Inf, NaN, NaN>>, cs)
             ELSE Return(<<m.val[1], m.val[2], m.val[5], m.val[4]>>, cs)
    ELSE Raise("ValueError",
               <<"Margin needs 1 or 3 arguments; received %i.", Len(a)>>, <<>>)

\* margin returning the two frequencies in the order stability_margins has.
margin_sameorder(a, und) ==
    IF Len(a) \in {1, 3}
    THEN LET m == stability_margins(IF Len(a) = 1 THEN a[1] ELSE Tuple(a), und)
             cs == <<Called("stability_margins", m)>>
         IN  IF m.exc # "None" THEN Raise(m.exc, m.msg, cs)
             ELSE Return(<<m.val[1], m.val[2], m.val[4], m.val[5]>>, cs)
    ELSE Raise("ValueError",
               <<"Margin needs 1 or 3 arguments; received %i.", Len(a)>>, <<>>)

\* margin taking the stability margin entries for the frequencies (indices
\* off by one: 2 and 5 in place of 3 and 4).
margin_offbyone(a, und) ==
    IF Len(a) \in {1, 3}
    THEN LET m == stability_margins(IF Len(a) = 1 THEN a[1] ELSE Tuple(a), und)
             cs == <<Called("stability_margins", m)>>
         IN  IF m.exc # "None" THEN Raise(m.exc, m.msg, cs)
             ELSE Return(<<m.val[1], m.val[2], m.val[6], m.val[3]>>, cs)
    ELSE Raise("ValueError",
               <<"Margin needs 1 or 3 arguments; received %i.", Len(a)>>, <<>>)

margin(a, und) ==
    IF Len(a) = 1
    THEN LET sys == a[1]
             m   == stability_margins(sys, und)
             cs  == <<Called("stability_margins", m)>>
         IN  IF m.exc # "None" THEN Raise(m.exc, m.msg, cs)
             ELSE Return(<<m.val[1], m.val[2], m.val[5], m.val[4]>>, cs)
    ELSE IF Len(a) = 3
    THEN LET m   == stability_margins(Tuple(a), und)
             cs  == <<Called("stability_margins", m)>>
         IN  IF m.exc # "None" THEN Raise(m.exc, m.msg, cs)
             ELSE Return(<<m.val[1], m.val[2], m.val[5], m.val[4]>>, cs)
    ELSE Raise("ValueError",
               <<"Margin needs 1 or 3 arguments; received %i.", Len(a)>>, <<>>)

\* Magnitude, phase and frequency arrays of one length.
Responses ==
    {r \in MagSeqs \X PhaseSeqs \X WSeqs :
        Len(r[1]) = Len(r[2]) /\ Len(r[2]) = Len(r[3])}

\* Arrays of lengths that are not all equal.
Ragged ==
    {<<[i \in 1..k[1] |-> <<1, 5>>], [i \in 1..k[2] |-> -135], [i \in 1..k[3] |-> i]>> :
        k \in {l \in [1..3 -> 1..MaxLen] : ~(l[1] = l[2] /\ l[2] = l[3])}}

\* LTI objects handed to margin, with the response evaluated on their grid,
\* which is logarithmically spaced.
MarginSystems ==
    {[type |-> t, resp |-> r] :
        t \in {"TransferFunction", "StateSpace"},
        r \in {x \in Responses : x[3] = [i \in 1..Len(x[3]) |-> Pow2(i - 1)]}}

\* Argument tuples of margin: 0 to 4 positional arguments.
MarginArgs ==
    {<<>>}
    \cup {<<s>> : s \in MarginSystems}
    \cup {<<m, p>> : m \in [1..1 -> MagValues], p \in [1..1 -> PhaseValues]}
    \cup Responses
    \cup Ragged
    \cup {<<m, p, w, w>> : m \in [1..1 -> MagValues], p \in [1..1 -> PhaseValues],
                           w \in Grids(1)}

Margin ==
    \E u \in Und :
        LET r == margin(args, u)
        IN  /\ pc = "call"
            /\ op = "margin"
            /\ pc' = "done"
            /\ ret' = [exc |-> r.exc, msg |-> r.msg, val |-> r.val]
            /\ calls' = r.calls
            /\ stdout' = r.out
            /\ UNCHANGED <<op, args>>

InitMargin == Calling("margin", MarginArgs)

SpecMargin == InitMargin /\ [][Margin]_vars

(***************************************************************************)
(* Properties of margin                                                    *)
(***************************************************************************)
MarginDone == pc = "done" /\ op = "margin"

\* The frequency response a successful margin call worked on.
MarginResp == IF Len(args) = 1 THEN freqresp(args[1]) ELSE args

Mismatched ==
    /\ Len(args) = 3
    /\ ~(Len(args[1]) = Len(args[2]) /\ Len(args[2]) = Len(args[3]))

\* C1: margin called with a number of positional arguments other than 1 or
\* 3 raises ValueError, returns nothing and never calls stability_margins.
C1_WrongCountRaises ==
    (MarginDone /\ Len(args) \notin {1, 3}) =>
        /\ ret.exc = "ValueError"
        /\ ret.val = NoValue
        /\ calls = <<>>

C1_Witness ==
    MarginDone /\ Len(args) = 2 /\ ret.exc = "ValueError" /\ calls = <<>>

\* C2: margin called with three arrays whose lengths are not all equal fails
\* with the invalid-argument error and returns no margin result.
C2_MismatchedLengthsRaise ==
    (MarginDone /\ Mismatched) =>
        /\ ret.exc = "InvalidArgumentError"
        /\ ret.val = NoValue

C2_Witness ==
    /\ MarginDone /\ Mismatched
    /\ Len(args[1]) = 3 /\ Len(args[2]) = 3 /\ Len(args[3]) = 2
    /\ Len(calls) = 1
    /\ ret.exc = "InvalidArgumentError"

\* C3: a successful margin call returns exactly (gm, pm, Wcg, Wcp): entries
\* 0, 1, 4, 3 of the one stability_margins result, so that Wcg is the
\* frequency of the selected unity-gain crossing (where the phase margin is
\* measured) and Wcp that of the selected -180 degree crossing (where the
\* gain margin is measured); entries 2 and 5 are not handed on.
C3_ResultLayout ==
    (MarginDone /\ ret.exc = "None") =>
        /\ Len(calls) = 1
        /\ calls[1].fn = "stability_margins"
        /\ Len(ret.val) = 4
        /\ ret.val[1] = calls[1].ret.val[1]
        /\ ret.val[2] = calls[1].ret.val[2]
        /\ ret.val[3] = calls[1].ret.val[5]
        /\ ret.val[4] = calls[1].ret.val[4]
        /\ LET gcs == GainCrossings(MarginResp[1], MarginResp[2], MarginResp[3])
               pcs == PhaseCrossings(MarginResp[1], MarginResp[2], MarginResp[3])
           IN  /\ gcs # {} => \E c \in gcs : c.w = ret.val[3] /\ c.margin = ret.val[2]
               /\ pcs # {} => \E c \in pcs : c.w = ret.val[4] /\ c.margin = ret.val[1]

\* Both kinds of crossing exist, at different frequencies, and neither
\* frequency equals an entry that is not handed on.
C3_Witness ==
    /\ MarginDone /\ ret.exc = "None"
    /\ ret.val[3][2] # 0 /\ ret.val[4][2] # 0
    /\ ret.val[3] # ret.val[4]
    /\ calls[1].ret.val[3] \notin {ret.val[3], ret.val[4]}
    /\ calls[1].ret.val[6] \notin {ret.val[3], ret.val[4]}

\* C4: when more than one crossover of a kind is detected, margin reports
\* the lowest margin among the candidates, whichever crossing lies at the
\* lower frequency, together with the frequency of that crossing.
C4_LowestMargin ==
    (MarginDone /\ ret.exc = "None") =>
        LET gcs == GainCrossings(MarginResp[1], MarginResp[2], MarginResp[3])
            pcs == PhaseCrossings(MarginResp[1], MarginResp[2], MarginResp[3])
        IN  /\ Cardinality(pcs) > 1 =>
                \E c \in pcs :
                    /\ ret.val[1] = c.margin /\ ret.val[4] = c.w
                    /\ \A d \in pcs : RLe(c.margin, d.margin)
            /\ Cardinality(gcs) > 1 =>
                \E c \in gcs :
                    /\ ret.val[2] = c.margin /\ ret.val[3] = c.w
                    /\ \A d \in gcs : RLe(c.margin, d.margin)

\* Candidate gain margins 5 and 2, the 5 at the lower frequency: 2 reported
\* with the frequency of the second crossing.
C4_Witness ==
    /\ MarginDone /\ ret.exc = "None"
    /\ LET pcs == PhaseCrossings(MarginResp[1], MarginResp[2], MarginResp[3])
       IN  /\ {c.margin : c \in pcs} = {<<5, 1>>, <<2, 1>>}
           /\ \E c, d \in pcs :
                /\ c.margin = <<5, 1>> /\ d.margin = <<2, 1>>
                /\ RLt(c.w, d.w) /\ ret.val[4] = d.w
    /\ ret.val[1] = <<2, 1>>

(***************************************************************************)
(* Matrices of rationals, as sequences of rows                             *)
(***************************************************************************)
Rows(M) == Len(M)

Cols(M) == Len(M[1])

RECURSIVE RSum(_, _)
RSum(f, n) == IF n = 0 THEN R(0) ELSE RAdd(RSum(f, n - 1), f[n])

MatMul(X, Y) ==
    Tup([i \in 1..Rows(X) |->
            Tup([j \in 1..Cols(Y) |->
                    RSum([k \in 1..Rows(Y) |-> RMul(X[i][k], Y[k][j])], Rows(Y))],
                Cols(Y))],
        Rows(X))

MatSub(X, Y) ==
    Tup([i \in 1..Rows(X) |->
            Tup([j \in 1..Cols(X) |-> RSub(X[i][j], Y[i][j])], Cols(X))],
        Rows(X))

MatAdd(X, Y) ==
    Tup([i \in 1..Rows(X) |->
            Tup([j \in 1..Cols(X) |-> RAdd(X[i][j], Y[i][j])], Cols(X))],
        Rows(X))

\* M without row i and column j.
Minor(M, i, j) ==
    Tup([r \in 1..(Len(M) - 1) |->
            Tup([c \in 1..(Len(M) - 1) |->
                    M[IF r < i THEN r ELSE r + 1][IF c < j THEN c ELSE c + 1]],
                Len(M) - 1)],
        Len(M) - 1)

RECURSIVE Det(_)
Det(M) ==
    IF Len(M) = 0 THEN R(1)
    ELSE RSum([j \in 1..Len(M) |->
                  RMul(IF j % 2 = 1 THEN M[1][j] ELSE RNeg(M[1][j]),
                       Det(Minor(M, 1, j)))], Len(M))

\* numpy.matrix.I of a square matrix: the inverse; LinAlgError when singular.
Singular(M) == Det(M) = R(0)

Inv(M) ==
    LET d == Det(M)
    IN  Tup([i \in 1..Len(M) |->
                Tup([j \in 1..Len(M) |->
                        RDiv(IF (i + j) % 2 = 0 THEN Det(Minor(M, j, i))
                             ELSE RNeg(Det(Minor(M, j, i))), d)],
                    Len(M))],
            Len(M))

(***************************************************************************)
(* Model constructors and conversions to state space                       *)
(***************************************************************************)
\* dt = 0: continuous time.
StateSpace(A, B, C, D, dt) ==
    [type |-> "StateSpace", A |-> A, B |-> B, C |-> C, D |-> D, dt |-> dt]

TransferFunction(num, den, dt) ==
    [type |-> "TransferFunction", num |-> num, den |-> den, dt |-> dt]

\* Coefficients (descending powers) of the monic polynomial with the roots.
RECURSIVE poly(_)
poly(roots) ==
    IF Len(roots) = 0 THEN <<R(1)>>
    ELSE LET q == poly(SubSeq(roots, 1, Len(roots) - 1))
             r == roots[Len(roots)]
         IN  Tup([i \in 1..(Len(q) + 1) |->
                    RSub(IF i <= Len(q) THEN q[i] ELSE R(0),
                         IF i >= 2 THEN RMul(r, q[i - 1]) ELSE R(0))],
                 Len(q) + 1)

\* scipy.signal.zpk2tf
zpk2tf(Z, P, k) ==
    LET pz == poly(Z)
    IN  <<Tup([i \in 1..(Len(Z) + 1) |-> RMul(k, pz[i])], Len(Z) + 1), poly(P)>>

\* Controller canonical (companion) realisation of num/den, len(num) <=
\* len(den), at least one pole: both polynomials divided by den[0], the
\* numerator padded with leading zeros to the length of the denominator.
Companion(num, den) ==
    LET K  == Len(den)
        dn == Tup([i \in 1..K |-> RDiv(den[i], den[1])], K)
        nm == Tup([i \in 1..K |->
                     IF i <= K - Len(num) THEN R(0)
                     ELSE RDiv(num[i - (K - Len(num))], den[1])], K)
    IN  <<Tup([i \in 1..(K - 1) |->
                 Tup([j \in 1..(K - 1) |->
                         IF i = 1 THEN RNeg(dn[j + 1])
                         ELSE IF j = i - 1 THEN R(1) ELSE R(0)], K - 1)], K - 1),
          Tup([i \in 1..(K - 1) |-> <<IF i = 1 THEN R(1) ELSE R(0)>>], K - 1),
          <<Tup([j \in 1..(K - 1) |-> RSub(nm[j + 1], RMul(nm[1], dn[j + 1]))],
                K - 1)>>,
          <<<<nm[1]>>>>>>

\* scipy.signal.zpk2ss: (A, B, C, D)
zpk2ss(Z, P, k) ==
    LET t == zpk2tf(Z, P, k)
    IN  Companion(t[1], t[2])

\* A model whose coefficients are not computed here: it is identified by
\* the operation, the model and the sample time it results from, and has
\* the representation and the timebase the operation gives it.
Derived(type, how, sys, dt) ==
    [type |-> type, dt |-> dt, of |-> <<how, sys>>]

convertToStateSpace(sys) ==
    IF sys.type = "StateSpace" THEN sys
    ELSE IF "num" \in DOMAIN sys
    THEN LET m == Companion(sys.num, sys.den)
         IN  StateSpace(m[1], m[2], m[3], m[4], sys.dt)
    ELSE Derived("StateSpace", "_convertToStateSpace", sys, sys.dt)

\* control.tf2ss(num, den)
tf2ss(num, den) == convertToStateSpace(TransferFunction(num, den, 0))

\* control.ss(A, B, C, D)
ss4(A, B, C, D) == StateSpace(A, B, C, D, 0)

\* control.ss(sys)
ss1(sys) == convertToStateSpace(sys)

(***************************************************************************)
(* dcgain                                                                  *)
(***************************************************************************)
\* gain = sys.D + sys.C * sys.A.I * sys.B: the sign slipped.
gainOf_plus(sys, cs) ==
    IF Singular(sys.A) THEN Raise("LinAlgError", <<"Singular matrix">>, cs)
    ELSE LET AI  == Inv(sys.A)
             AIB == MatMul(AI, sys.B)
         IN  Return(MatAdd(sys.D, MatMul(sys.C, AIB)), cs)

\* The inverse taken entry by entry as adj(A)/det(A) in floating point: a
\* zero determinant divides to inf/nan instead of raising.
gainOf_divzero(sys, cs) ==
    IF Singular(sys.A)
    THEN Return([i \in 1..Rows(sys.D) |-> [j \in 1..Cols(sys.D) |-> Inf]], cs)
    ELSE LET AI  == Inv(sys.A)
             AIB == MatMul(AI, sys.B)
         IN  Return(MatSub(sys.D, MatMul(sys.C, AIB)), cs)

\* gain = sys.D - sys.C * sys.A.I * sys.B; return gain
gainOf(sys, cs) ==
    IF Singular(sys.A) THEN Raise("LinAlgError", <<"Singular matrix">>, cs)
    ELSE LET AI  == Inv(sys.A)
             AIB == MatMul(AI, sys.B)
         IN  Return(MatSub(sys.D, MatMul(sys.C, AIB)), cs)

\* dcgain reading four or more arguments as A, B, C, D and dropping the
\* rest.
dcgain_atleast4(a) ==
    IF Len(a) >= 4
    THEN LET sys == ss4(a[1], a[2], a[3], a[4])
         IN  gainOf(sys, <<Called("ss", sys)>>)
    ELSE IF Len(a) = 3
    THEN LET m   == zpk2ss(a[1], a[2], a[3])
             sys == ss4(m[1], m[2], m[3], m[4])
         IN  gainOf(sys, <<Called("zpk2ss", m), Called("ss", sys)>>)
    ELSE IF Len(a) = 2
    THEN LET sys == tf2ss(a[1], a[2])
         IN  gainOf(sys, <<Called("tf2ss", sys)>>)
    ELSE IF Len(a) = 1
    THEN LET sys == ss1(a[1])
         IN  gainOf(sys, <<Called("ss", sys)>>)
    ELSE Raise("ValueError",
               <<"Function dcgain needs either 1, 2, 3 or 4 arguments.">>,
               <<>>)

dcgain(a) ==
    IF Len(a) = 4
    THEN LET sys == ss4(a[1], a[2], a[3], a[4])
         IN  gainOf(sys, <<Called("ss", sys)>>)
    ELSE IF Len(a) = 3
    THEN LET m   == zpk2ss(a[1], a[2], a[3])
             sys == ss4(m[1], m[2], m[3], m[4])
         IN  gainOf(sys, <<Called("zpk2ss", m), Called("ss", sys)>>)
    ELSE IF Len(a) = 2
    THEN LET sys == tf2ss(a[1], a[2])
         IN  gainOf(sys, <<Called("tf2ss", sys)>>)
    ELSE IF Len(a) = 1
    THEN LET sys == ss1(a[1])
         IN  gainOf(sys, <<Called("ss", sys)>>)
    ELSE Raise("ValueError",
               <<"Function dcgain needs either 1, 2, 3 or 4 arguments.">>,
               <<>>)

(***************************************************************************)
(* Inputs of dcgain                                                        *)
(***************************************************************************)
\* Largest number of states / poles of an input model.
MaxOrder == 2

\* Largest number of inputs and of outputs of a state-space input.
MaxIO == 2

\* State matrices: poles on the diagonal, one coupling above it.
DiagValues == {-3, -2, 0}

CouplingValues == {0, 1}

AMats(n) ==
    {[i \in 1..n |->
        [j \in 1..n |->
            R(IF i = j THEN d[i] ELSE IF j = i + 1 THEN c ELSE 0)]] :
        d \in [1..n -> DiagValues], c \in IF n = 1 THEN {0} ELSE CouplingValues}

\* Input matrices: all ones, or every column the first unit vector.
BMats(n, m) ==
    {[i \in 1..n |-> [j \in 1..m |-> R(IF k = 1 /\ i > 1 THEN 0 ELSE 1)]] :
        k \in {0, 1}}

\* Output matrices: all ones, or every row the last unit vector.
CMats(q, n) ==
    {[i \in 1..q |-> [j \in 1..n |-> R(IF k = 1 /\ j < n THEN 0 ELSE 1)]] :
        k \in {0, 1}}

DMats(q, m) == {[i \in 1..q |-> [j \in 1..m |-> R(d)]] : d \in {0, 1}}

ABCD ==
    UNION {AMats(n) \X BMats(n, m) \X CMats(q, n) \X DMats(q, m) :
             <<n, m, q>> \in (1..MaxOrder) \X (1..MaxIO) \X (1..MaxIO)}

RatSeqs(vals, n) == {[i \in 1..n |-> R(f[i])] : f \in [1..n -> vals]}

\* Transfer functions num/den (descending powers), proper, with a pole.
NumValues == {1, 2}

DenLeadValues == {1, 2}

DenValues == {0, 2, 3}

Dens == UNION {{[i \in 1..(n + 1) |-> R(IF i = 1 THEN l ELSE r[i - 1])] :
                  l \in DenLeadValues, r \in [1..n -> DenValues]} :
               n \in 1..MaxOrder}

NumDen ==
    UNION {RatSeqs(NumValues, k) \X {den} :
             <<k, den>> \in {<<j, d>> \in (1..(MaxOrder + 1)) \X Dens : j <= Len(d)}}

\* Zeros, poles (real) and gain, no more zeros than poles, with a pole.
ZeroValues == {-1, 0}

GainValues == {1, 2}

ZPK ==
    UNION {RatSeqs(ZeroValues, nz) \X RatSeqs(DiagValues, np) \X {R(k) : k \in GainValues} :
             <<nz, np>> \in {<<i, j>> \in (0..MaxOrder) \X (1..MaxOrder) : i <= j}}

\* LTI objects, continuous time.
SSSystems == {ss4(m[1], m[2], m[3], m[4]) : m \in ABCD}

SISO(sys) ==
    IF sys.type = "StateSpace" THEN Rows(sys.C) = 1 /\ Cols(sys.B) = 1 ELSE TRUE

TFSystems == {TransferFunction(t[1], t[2], 0) : t \in NumDen}

\* Argument tuples of dcgain: 0 to 5 positional arguments.
DcgainArgs ==
    {<<>>}
    \cup {<<sys>> : sys \in {x \in SSSystems : SISO(x)} \cup TFSystems}
    \cup NumDen
    \cup ZPK
    \cup ABCD
    \cup {<<m[1], m[2], m[3], m[4], m[4]>> :
            m \in AMats(1) \X BMats(1, 1) \X CMats(1, 1) \X DMats(1, 1)}

Dcgain ==
    LET r == dcgain(args)
    IN  /\ pc = "call"
        /\ op = "dcgain"
        /\ pc' = "done"
        /\ ret' = [exc |-> r.exc, msg |-> r.msg, val |-> r.val]
        /\ calls' = r.calls
        /\ stdout' = r.out
        /\ UNCHANGED <<op, args>>

InitDcgain == Calling("dcgain", DcgainArgs)

SpecDcgain == InitDcgain /\ [][Dcgain]_vars

(***************************************************************************)
(* Properties of dcgain                                                    *)
(***************************************************************************)
DcgainDone == pc = "done" /\ op = "dcgain"

\* The state-space model the input was converted to.
DcSys == calls[Len(calls)].ret

RECURSIVE NegProd(_, _)
NegProd(xs, n) == IF n = 0 THEN R(1) ELSE RMul(NegProd(xs, n - 1), RNeg(xs[n]))

\* The value at s = 0 of the transfer function num/den.
AtZero(num, den) == RDiv(num[Len(num)], den[Len(den)])

\* C5: for each accepted call shape (4, 3, 2 or 1 arguments) the input is
\* first converted to a state-space model, and the gain returned is
\* D - C X of that model, X being the solution of A X = B, with one entry
\* per (output, input) pair; it is the value of the input's transfer
\* function at s = 0.
C5_GainFormula ==
    (DcgainDone /\ ret.exc = "None") =>
        /\ Len(args) \in 1..4
        /\ Len(calls) >= 1
        /\ calls[Len(calls)].fn = (IF Len(args) = 2 THEN "tf2ss" ELSE "ss")
        /\ DcSys.type = "StateSpace"
        /\ LET X == MatMul(Inv(DcSys.A), DcSys.B)
           IN  /\ MatMul(DcSys.A, X) = DcSys.B
               /\ ret.val = MatSub(DcSys.D, MatMul(DcSys.C, X))
        /\ Rows(ret.val) = Rows(DcSys.C)
        /\ Cols(ret.val) = Cols(DcSys.B)
        /\ Len(args) = 4 =>
              <<DcSys.A, DcSys.B, DcSys.C, DcSys.D>> = args
        /\ Len(args) = 3 =>
              ret.val = <<<<RDiv(RMul(args[3], NegProd(args[1], Len(args[1]))),
                                 NegProd(args[2], Len(args[2])))>>>>
        /\ Len(args) = 2 => ret.val = <<<<AtZero(args[1], args[2])>>>>
        /\ Len(args) = 1 =>
              IF args[1].type = "TransferFunction"
              THEN ret.val = <<<<AtZero(args[1].num, args[1].den)>>>>
              ELSE DcSys = args[1]

\* A = diag(-2, -3), B = [1; 1], C = [1 1], D = 0: the gain is 1/2 + 1/3.
C5_Witness ==
    /\ DcgainDone /\ ret.exc = "None"
    /\ args = << <<<<R(-2), R(0)>>, <<R(0), R(-3)>>>>,
                 <<<<R(1)>>, <<R(1)>>>>,
                 <<<<R(1), R(1)>>>>,
                 <<<<R(0)>>>> >>
    /\ ret.val = <<<<RAdd(<<1, 2>>, <<1, 3>>)>>>>

Conversions == [i \in 1..Len(calls) |-> calls[i].fn]

\* C13: the number of positional arguments alone selects what dcgain
\* converts: four arguments go to ss as A, B, C, D; three go to zpk2ss and
\* its result to ss; two go to tf2ss; one goes to ss; in each case the gain
\* is computed, or fails, on the model so obtained.  With no argument or
\* more than four dcgain raises ValueError with its message, having made no
\* conversion and computed no gain.
C13_DispatchByCount ==
    DcgainDone =>
        IF Len(args) = 4
        THEN /\ Conversions = <<"ss">>
             /\ <<DcSys.A, DcSys.B, DcSys.C, DcSys.D>> = args
             /\ ret.exc \in {"None", "LinAlgError"}
        ELSE IF Len(args) = 3
        THEN /\ Conversions = <<"zpk2ss", "ss">>
             /\ <<DcSys.A, DcSys.B, DcSys.C, DcSys.D>> = calls[1].ret
             /\ Rows(DcSys.A) = Len(args[2])
             /\ ret.exc \in {"None", "LinAlgError"}
        ELSE IF Len(args) = 2
        THEN /\ Conversions = <<"tf2ss">>
             /\ Rows(DcSys.A) = Len(args[2]) - 1
             /\ ret.exc \in {"None", "LinAlgError"}
        ELSE IF Len(args) = 1
        THEN /\ Conversions = <<"ss">>
             /\ args[1].type \in {"StateSpace", "TransferFunction"}
             /\ ret.exc \in {"None", "LinAlgError"}
        ELSE /\ Conversions = <<>>
             /\ ret.exc = "ValueError"
             /\ ret.msg = <<"Function dcgain needs either 1, 2, 3 or 4 arguments.">>
             /\ ret.val = NoValue

\* Five arguments, the first four a state-space model with gain 3/2:
\* ValueError, and nothing was converted.
C13_Witness ==
    /\ DcgainDone
    /\ args = <<<<<<R(-2)>>>>, <<<<R(1)>>>>, <<<<R(1)>>>>, <<<<R(1)>>>>, <<<<R(1)>>>>>>
    /\ ret.exc = "ValueError"
    /\ calls = <<>>

(***************************************************************************)
(* damp                                                                    *)
(*                                                                         *)
(* Pole coordinates are integers in units of 1e-13, so that the tolerance  *)
(* 1e-12 of line 514 is the integer 10 and both sides of it are reached.   *)
(***************************************************************************)
ImagTol == 10

ReValues == {-50, 0, 50}

ImValues == {-120, -5, 0, 10, 120}

IsSquare(n) == \E r \in 0..n : r * r = n

Isqrt(n) == CHOOSE r \in 0..n : r * r = n

\* Poles whose modulus is computed exactly, or whose imaginary part is
\* negligible.
PoleValues ==
    {p \in [re : ReValues, im : ImValues] :
        Abs(p.im) < ImagTol \/ IsSquare(p.re * p.re + p.im * p.im)}

\* LTI objects with their poles, in the order the eigenvalue computation
\* yields them.
DampSystems ==
    {[type |-> t, poles |-> ps] :
        t \in {"StateSpace", "TransferFunction"},
        ps \in UNION {[1..n -> PoleValues] : n \in 0..MaxOrder}}

\* sys.pole()
pole(sys) == sys.poles

\* sys.damp(): (wn, damping, poles)
sys_damp(sys) ==
    LET poles == pole(sys)
        wn == Tup([i \in 1..Len(poles) |->
                     IF Abs(poles[i].im) < ImagTol THEN R(-poles[i].re)
                     ELSE R(Isqrt(poles[i].re * poles[i].re
                                  + poles[i].im * poles[i].im))],
                  Len(poles))
        damping == Tup([i \in 1..Len(poles) |->
                          IF Abs(poles[i].im) < ImagTol THEN R(1)
                          ELSE RDiv(R(-poles[i].re), wn[i])],
                       Len(poles))
    IN  <<wn, damping, poles>>

RECURSIVE Pow10(_)
Pow10(k) == IF k = 0 THEN 1 ELSE 10 * Pow10(k - 1)

\* n/d > 0 rounded to the nearest integer, halves to even.
RoundHalfEven(n, d) ==
    LET q == n \div d
        r == n % d
    IN  IF 2 * r < d THEN q
        ELSE IF 2 * r > d THEN q + 1
        ELSE IF q % 2 = 0 THEN q ELSE q + 1

\* The least k >= 0 with n/d * 10^k >= 1000, for 0 < n/d < 10000.
RECURSIVE Digits(_, _, _)
Digits(n, d, k) ==
    IF n * Pow10(k) >= 1000 * d THEN k ELSE Digits(n, d, k + 1)

\* "%.4g": the number with four significant digits.
Fmt4g(x) ==
    IF x[1] = 0 THEN R(0)
    ELSE LET k == Digits(Abs(x[1]), x[2], 0)
             m == RoundHalfEven(Abs(x[1]) * Pow10(k), x[2])
         IN  Rat(Sign(x[1]) * m, Pow10(k))

Header == <<"_____Eigenvalue______ Damping___ Frequency_">>

\* One printed row: the formatted numbers of the line, in order.
RealRow(p) == <<Fmt4g(R(p.re)), Fmt4g(R(1)), Fmt4g(R(-p.re))>>

ComplexRow(p, d, w) == <<Fmt4g(R(p.re)), Fmt4g(R(p.im)), Fmt4g(d), Fmt4g(w)>>

\* damp printing p.real, not -p.real, as the frequency of a real pole.
damp_noneg(sys, doprint) ==
    LET r == sys_damp(sys)
        cs == <<Called("sys.damp", r)>>
        rows == [i \in 1..Len(r[3]) |->
                   IF Abs(r[3][i].im) < ImagTol
                   THEN <<Fmt4g(R(r[3][i].re)), Fmt4g(R(1)), Fmt4g(R(r[3][i].re))>>
                   ELSE ComplexRow(r[3][i], r[2][i], r[1][i])]
    IN  [Return(r, cs) EXCEPT !.out = IF doprint THEN Header \o rows ELSE <<>>]

\* damp returning, when it prints, the numbers as it printed them.
damp_asprinted(sys, doprint) ==
    LET r == sys_damp(sys)
        cs == <<Called("sys.damp", r)>>
        rows == [i \in 1..Len(r[3]) |->
                   IF Abs(r[3][i].im) < ImagTol
                   THEN RealRow(r[3][i])
                   ELSE ComplexRow(r[3][i], r[2][i], r[1][i])]
        shown == <<[i \in 1..Len(r[1]) |-> Fmt4g(r[1][i])],
                   [i \in 1..Len(r[2]) |-> Fmt4g(r[2][i])],
                   r[3]>>
    IN  [Return(IF doprint THEN shown ELSE r, cs)
            EXCEPT !.out = IF doprint THEN Header \o rows ELSE <<>>]

damp(sys, doprint) ==
    LET r == sys_damp(sys)
        cs == <<Called("sys.damp", r)>>
        wn == r[1]
        damping == r[2]
        poles == r[3]
        rows == [i \in 1..Len(poles) |->
                   IF Abs(poles[i].im) < ImagTol
                   THEN RealRow(poles[i])
                   ELSE ComplexRow(poles[i], damping[i], wn[i])]
    IN  [Return(<<wn, damping, poles>>, cs)
            EXCEPT !.out = IF doprint THEN Header \o rows ELSE <<>>]

\* damp(sys), damp(sys, True), damp(sys, False)
DampArgs ==
    {<<sys>> : sys \in DampSystems}
    \cup (DampSystems \X BOOLEAN)

Damp ==
    LET r == damp(args[1], IF Len(args) = 1 THEN TRUE ELSE args[2])
    IN  /\ pc = "call"
        /\ op = "damp"
        /\ pc' = "done"
        /\ ret' = [exc |-> r.exc, msg |-> r.msg, val |-> r.val]
        /\ calls' = r.calls
        /\ stdout' = r.out
        /\ UNCHANGED <<op, args>>

InitDamp == Calling("damp", DampArgs)

SpecDamp == InitDamp /\ [][Damp]_vars

(***************************************************************************)
(* Properties of damp                                                      *)
(***************************************************************************)
DampDone == pc = "done" /\ op = "damp"

DampPrints == Len(args) = 1 \/ args[2]

\* C10: for each pole p with |Im p| < 1e-12 damp reports damping 1.0 and
\* natural frequency -Re p; for every other pole it reports natural
\* frequency |p| and damping -Re p / |p|.  This holds of the values
\* returned and, to four significant digits, of the row printed; stable
\* and unstable real poles alike.
C10_ReportedValues ==
    DampDone =>
        /\ ret.exc = "None"
        /\ Len(ret.val[1]) = Len(args[1].poles)
        /\ Len(ret.val[2]) = Len(args[1].poles)
        /\ DampPrints => Len(stdout) = Len(args[1].poles) + 1
        /\ \A i \in 1..Len(args[1].poles) :
             LET p  == args[1].poles[i]
                 wn == ret.val[1][i]
                 z  == ret.val[2][i]
             IN  IF Abs(p.im) < ImagTol
                 THEN /\ z = R(1)
                      /\ wn = R(-p.re)
                      /\ DampPrints =>
                            stdout[i + 1] = <<Fmt4g(R(p.re)), R(1), Fmt4g(R(-p.re))>>
                 ELSE /\ RLe(R(0), wn)
                      /\ RMul(wn, wn) = R(p.re * p.re + p.im * p.im)
                      /\ RMul(z, wn) = R(-p.re)
                      /\ DampPrints =>
                            stdout[i + 1] =
                                <<Fmt4g(R(p.re)), Fmt4g(R(p.im)), Fmt4g(z), Fmt4g(wn)>>

\* An unstable real pole with a negligible, non-zero imaginary part next to
\* a complex pole whose damping does not print exactly.
C10_Witness ==
    /\ DampDone /\ DampPrints
    /\ args[1].poles = <<[re |-> 50, im |-> -5], [re |-> -50, im |-> 120]>>
    /\ ret.val[1] = <<R(-50), R(130)>>
    /\ ret.val[2] = <<R(1), <<5, 13>>>>
    /\ stdout[2] = <<R(50), R(1), R(-50)>>
    /\ stdout[3] = <<R(-50), R(120), <<1923, 5000>>, R(130)>>

\* C11: printing does not affect what damp returns.  Whatever doprint is,
\* damp returns the triple (wn, damping, poles) that its one call of
\* sys.damp() produced, the same triple as the call with the other value of
\* doprint returns: three sequences of one length, entry i of each belonging
\* to pole i of the system, in the order the poles were computed.  With
\* doprint true (the default) the header line and then one line per pole, in
\* that order, are printed; with doprint false nothing is printed.
C11_PrintingLeavesResult ==
    DampDone =>
        /\ ret.exc = "None"
        /\ Len(calls) = 1
        /\ calls[1].fn = "sys.damp"
        /\ ret.val = calls[1].ret
        /\ ret.val = damp(args[1], ~DampPrints).val
        /\ Len(ret.val) = 3
        /\ ret.val[3] = pole(args[1])
        /\ Len(ret.val[1]) = Len(ret.val[3])
        /\ Len(ret.val[2]) = Len(ret.val[3])
        /\ IF DampPrints
           THEN /\ Len(stdout) = 1 + Len(ret.val[3])
                /\ stdout[1] = Header[1]
                /\ \A i \in 1..Len(ret.val[3]) :
                     stdout[i + 1][1] = Fmt4g(R(ret.val[3][i].re))
           ELSE stdout = <<>>

\* Two poles given in descending order of frequency, the first with a damping
\* that four digits do not hold: printed as three lines, returned unrounded
\* and in the order given.
C11_Witness ==
    /\ DampDone /\ Len(args) = 2 /\ args[2]
    /\ args[1].poles = <<[re |-> -50, im |-> 120], [re |-> 50, im |-> 0]>>
    /\ Len(stdout) = 3
    /\ stdout[2][3] = <<1923, 5000>>
    /\ ret.val = <<<<R(130), R(-50)>>, <<<<5, 13>>, R(1)>>, args[1].poles>>
    /\ ret.val = damp(args[1], FALSE).val

(***************************************************************************)
(* c2d                                                                     *)
(***************************************************************************)
\* Largest sample time passed.
MaxTs == 2

Methods == {"zoh", "foh", "impulse", "tustin", "matched"}

\* sample_system(sysc, Ts, method), sysc continuous, Ts > 0
sample_system(sysc, Ts, method) ==
    IF method \in {"foh", "impulse"}
    THEN Raise("NotImplementedError", <<method>>, <<>>)
    ELSE IF method \in {"tustin", "matched"}
    THEN IF ~SISO(sysc) THEN Raise("UnsupportedShapeError", NoMsg, <<>>)
         ELSE Return(Derived("TransferFunction", method, sysc, Ts), <<>>)
    ELSE Return(Derived("StateSpace", method, sysc, Ts), <<>>)

\* c2d not handing the method on: sample_system(sysc, Ts) with zoh.
c2d_nomethod(sysc, Ts, method) ==
    LET s  == sample_system(sysc, Ts, "zoh")
        cs == <<Called("sample_system", s)>>
    IN  IF s.exc # "None" THEN Raise(s.exc, s.msg, cs)
        ELSE IF sysc.type = "StateSpace" /\ s.val.type # "StateSpace"
        THEN LET c == convertToStateSpace(s.val)
             IN  Return(c, cs \o <<Called("_convertToStateSpace", c)>>)
        ELSE Return(s.val, cs)

\* c2d converting whatever is not in state space, whatever the input was.
c2d_anyinput(sysc, Ts, method) ==
    LET s  == sample_system(sysc, Ts, method)
        cs == <<Called("sample_system", s)>>
    IN  IF s.exc # "None" THEN Raise(s.exc, s.msg, cs)
        ELSE IF s.val.type # "StateSpace"
        THEN LET c == convertToStateSpace(s.val)
             IN  Return(c, cs \o <<Called("_convertToStateSpace", c)>>)
        ELSE Return(s.val, cs)

\* c2d converting sysc, not sysd, back to state space.
c2d_sysc(sysc, Ts, method) ==
    LET s  == sample_system(sysc, Ts, method)
        cs == <<Called("sample_system", s)>>
    IN  IF s.exc # "None" THEN Raise(s.exc, s.msg, cs)
        ELSE IF sysc.type = "StateSpace" /\ s.val.type # "StateSpace"
        THEN LET c == convertToStateSpace(sysc)
             IN  Return(c, cs \o <<Called("_convertToStateSpace", c)>>)
        ELSE Return(s.val, cs)

c2d(sysc, Ts, method) ==
    LET s  == sample_system(sysc, Ts, method)
        cs == <<Called("sample_system", s)>>
    IN  IF s.exc # "None" THEN Raise(s.exc, s.msg, cs)
        ELSE IF sysc.type = "StateSpace" /\ s.val.type # "StateSpace"
        THEN LET c == convertToStateSpace(s.val)
             IN  Return(c, cs \o <<Called("_convertToStateSpace", c)>>)
        ELSE Return(s.val, cs)

Ones(q, m) == [i \in 1..q |-> [j \in 1..m |-> R(1)]]

Zeros(q, m) == [i \in 1..q |-> [j \in 1..m |-> R(0)]]

\* Continuous models handed to c2d.
C2dSystems ==
    UNION {{ss4(A, Ones(n, m), Ones(q, n), Zeros(q, m)) : A \in AMats(n)} :
             <<n, m, q>> \in (1..MaxOrder) \X (1..MaxIO) \X (1..MaxIO)}
    \cup {TransferFunction(<<R(1)>>, den, 0) : den \in Dens}

\* c2d(sysc, Ts) and c2d(sysc, Ts, method)
C2dArgs ==
    (C2dSystems \X (1..MaxTs))
    \cup (C2dSystems \X (1..MaxTs) \X Methods)

\* c2d sampling in place: sysd is sysc itself, its dt overwritten by Ts.
C2d_inplace ==
    LET r == c2d(args[1], args[2], IF Len(args) = 2 THEN "zoh" ELSE args[3])
    IN  /\ pc = "call"
        /\ op = "c2d"
        /\ pc' = "done"
        /\ ret' = [exc |-> r.exc, msg |-> r.msg, val |-> r.val]
        /\ calls' = r.calls
        /\ stdout' = r.out
        /\ args' = IF r.exc = "None" THEN [args EXCEPT ![1].dt = args[2]]
                   ELSE args
        /\ UNCHANGED op

C2d ==
    LET r == c2d(args[1], args[2], IF Len(args) = 2 THEN "zoh" ELSE args[3])
    IN  /\ pc = "call"
        /\ op = "c2d"
        /\ pc' = "done"
        /\ ret' = [exc |-> r.exc, msg |-> r.msg, val |-> r.val]
        /\ calls' = r.calls
        /\ stdout' = r.out
        /\ UNCHANGED <<op, args>>

InitC2d == Calling("c2d", C2dArgs)

SpecC2d == InitC2d /\ [][C2d]_vars

(***************************************************************************)
(* Properties of c2d                                                       *)
(***************************************************************************)
C2dDone == pc = "done" /\ op = "c2d"

C2dMethod == IF Len(args) = 2 THEN "zoh" ELSE args[3]

\* C7: c2d with method 'foh' or 'impulse' fails with NotImplementedError
\* naming the method, for every continuous model and sample time, and
\* returns no system.
C7_UnimplementedMethods ==
    (C2dDone /\ C2dMethod \in {"foh", "impulse"}) =>
        /\ ret.exc = "NotImplementedError"
        /\ ret.msg = <<C2dMethod>>
        /\ ret.val = NoValue

C7_Witness ==
    /\ C2dDone /\ C2dMethod = "impulse"
    /\ args[1].type = "TransferFunction"
    /\ ret.exc = "NotImplementedError"

\* C8: for a StateSpace input every successful c2d call returns a StateSpace
\* model, converting what sample_system returned when that is not one; for
\* a TransferFunction input c2d returns what sample_system returned,
\* unconverted, which for tustin and matched is a transfer function.
C8_RepresentationFollowsInput ==
    (C2dDone /\ ret.exc = "None") =>
        /\ calls[1].fn = "sample_system"
        /\ args[1].type = "StateSpace" =>
              /\ ret.val.type = "StateSpace"
              /\ IF calls[1].ret.val.type = "StateSpace"
                 THEN Len(calls) = 1 /\ ret.val = calls[1].ret.val
                 ELSE /\ Len(calls) = 2
                      /\ calls[2].fn = "_convertToStateSpace"
                      /\ ret.val = calls[2].ret
                      /\ ret.val.of[2] = calls[1].ret.val
        /\ args[1].type = "TransferFunction" =>
              /\ Len(calls) = 1
              /\ ret.val = calls[1].ret.val
              /\ C2dMethod \in {"tustin", "matched"} =>
                    ret.val.type = "TransferFunction"

\* A state-space model sampled by tustin comes back in state space.
C8_Witness ==
    /\ C2dDone /\ ret.exc = "None"
    /\ args[1].type = "StateSpace" /\ C2dMethod = "tustin"
    /\ calls[1].ret.val.type = "TransferFunction"
    /\ ret.val.type = "StateSpace"

\* C9: every system a successful c2d call returns is discrete with sample
\* time Ts, also when it was converted back to state space.
C9_SampleTime ==
    (C2dDone /\ ret.exc = "None") =>
        /\ ret.val.dt = args[2]
        /\ ret.val.dt > 0

C9_Witness ==
    /\ C2dDone /\ ret.exc = "None"
    /\ Len(calls) = 2 /\ calls[2].fn = "_convertToStateSpace"
    /\ args[1].dt = 0
    /\ args[2] = 2 /\ ret.val.dt = 2

(***************************************************************************)
(* The module: any one call of any entry point                             *)
(***************************************************************************)
Init == InitMargin \/ InitDcgain \/ InitDamp \/ InitC2d

Next == Margin \/ Dcgain \/ Damp \/ C2d

Spec == Init /\ [][Next]_vars

(***************************************************************************)
(* Properties of every entry point                                         *)
(***************************************************************************)
\* A finished call either raised, with no value and nothing printed, or
\* returned a value.
Complete ==
    pc = "done" =>
        IF ret.exc = "None" THEN ret.val # NoValue
        ELSE ret.val = NoValue /\ stdout = <<>>

\* The model handed to c2d is continuous after the call, and the system
\* returned is another one, in discrete time.
SyscKept ==
    C2dDone =>
        /\ args[1].dt = 0
        /\ args[1] \in C2dSystems
        /\ ret.exc = "None" => (ret.val # args[1] /\ ret.val.dt # args[1].dt)

\* C12: margin, dcgain, damp and c2d leave their arguments as they were
\* passed, whether the call returns or raises; a call that raises leaves no
\* partial result, a call that returns has a result; after c2d the model
\* sysc is continuous with the matrices it had, and the system returned is
\* a new one.
C12_InputsUnchanged ==
    /\ [][args' = args]_vars
    /\ [](Complete /\ SyscKept)

\* c2d by tustin of a model with two inputs fails: nothing is returned and
\* the model is as it was passed, in continuous time.
C12_Witness ==
    /\ C2dDone /\ C2dMethod = "tustin"
    /\ ret.exc = "UnsupportedShapeError"
    /\ ret.val = NoValue
    /\ args[1] = ss4(<<<<R(-2)>>>>, Ones(1, 2), Ones(1, 1), Zeros(1, 2))
    /\ args[1].dt = 0

====
